---- MODULE Spec2Model ----
(***************************************************************************)
(* The task-board HTTP backend of src/index.js and src/server.js.          *)
(*                                                                         *)
(* src/index.js holds two iterations of the server: the first (lines       *)
(* 1-219, variant "A") gates its routes with the verifyToken middleware,   *)
(* the second (lines 221-404, variant "B") registers the same paths        *)
(* without it and verifies the token inline in GET /protected.             *)
(* src/server.js (variant "S") serves a single store-backed route.         *)
(*                                                                         *)
(* A request occupies a slot; its handler runs in steps separated by the   *)
(* awaits of the code (bcrypt.hash, pool.query, bcrypt.compare), and the   *)
(* steps of different requests interleave freely.                          *)
(***************************************************************************)
EXTENDS Integers, Sequences, FiniteSets, TLC

\* ------------------------------------------------------------- bounds
MaxReq == 2          \* requests in flight at once
MaxTicks == 1        \* clock steps taken
TickStep == 3600     \* seconds per clock step
MaxRows == 1         \* rows the tasks table can hold
MaxSalt == 1         \* salts bcrypt draws from
MaxStore == 1        \* store-route requests in flight at once
MaxOpen == 1         \* requests open at once, in the specifications that follow single requests

\* ------------------------------------------------- program constants
ExpiresIn == 3600    \* expiresIn: '1h'

\* --------------------------------------------------------- value sets
Slots == 1..MaxReq
Undefined == "<undefined>"
Usernames == {"alice", "bob"}
Passwords == {"secret123"}
WrongPassword == "wrong"
EnvVars == {"DB_USER", "DB_HOST", "DB_NAME", "DB_PASSWORD", "DB_PORT", "SECRET_KEY"}
StoreCredentials == {"DB_USER", "DB_PASSWORD"}
SecretValue == "k3y"
Faults == {"ECONNREFUSED", "ETIMEDOUT"}
UniqueViolationFault == "23505 duplicate key value violates unique constraint"
Variants == {"A", "B", "S"}

NoToken == [id |-> 0, username |-> "", exp |-> 0, sig |-> ""]
NoUser == [id |-> 0, username |-> ""]
NoHash == [salt |-> 0, pw |-> ""]
NoRow == [user_id |-> 0, username |-> "", password |-> NoHash]
NoBody == [kind |-> "none", text |-> "", token |-> NoToken, user |-> NoUser, user_id |-> 0]

VARIABLES
    variant,   \* which iteration of the server runs
    env,       \* process.env: the variables that are present
    phase,     \* "boot", "listening" or "exited"
    now,       \* the clock, in seconds
    users,     \* the users table: rows in insertion order
    tasks,     \* the tasks table
    reqs,      \* the request slots
    cookie,    \* the client's cookie jar: the cookie named "token"
    captured,  \* a token the client copied out of a response body
    created    \* per username, the 201 responses POST /register has sent

vars == <<variant, env, phase, now, users, tasks, reqs, cookie, captured, created>>

\* ---------------------------------------------------------- responses
Msg(text) == [NoBody EXCEPT !.kind = "message", !.text = text]
Err(text) == [NoBody EXCEPT !.kind = "error", !.text = text]
Text(text) == [NoBody EXCEPT !.kind = "text", !.text = text]
TokenBody(t) == [NoBody EXCEPT !.kind = "token", !.token = t]
GrantedBody(u) == [NoBody EXCEPT !.kind = "message", !.text = "Access granted", !.user = u]
RowsBody(what) == [NoBody EXCEPT !.kind = "rows", !.text = what]
RowBody(what, uid) == [NoBody EXCEPT !.kind = "row", !.text = what, !.user_id = uid]

Idle ==
    [route |-> "", pc |-> "idle", how |-> "none", tok |-> NoToken,
     username |-> "", password |-> "", user_id |-> 0,
     user |-> NoUser, handler |-> FALSE,
     nq |-> 0, nhash |-> 0, ncmp |-> 0, nresp |-> 0,
     status |-> 0, body |-> NoBody, setCookie |-> NoToken,
     fault |-> "", fresh |-> FALSE, row |-> NoRow, hashed |-> NoHash]

\* res.status(s).json(b) / res.send(b): one response, the handler is over
Respond(r, s, b) == [r EXCEPT !.pc = "done", !.status = s, !.body = b, !.nresp = @ + 1]

\* the slot a new request takes
FreeSlot(i) ==
    /\ reqs[i].pc = "idle"
    /\ \A j \in 1..(i - 1) : reqs[j].pc # "idle"

\* a response is delivered before the server takes its next step
Delivered == \A i \in Slots : reqs[i].pc # "done"

\* ------------------------------------------------------------ startup
SECRET_KEY == IF "SECRET_KEY" \in env THEN SecretValue ELSE Undefined

\* if (!process.env.DB_USER || !SECRET_KEY) process.exit(1)   (variant A only)
StartupCheckFails(v, e) == v = "A" /\ ("DB_USER" \notin e \/ "SECRET_KEY" \notin e)

Startup ==
    /\ Delivered
    /\ phase = "boot"
    /\ phase' = IF StartupCheckFails(variant, env) THEN "exited" ELSE "listening"
    /\ UNCHANGED <<variant, env, now, users, tasks, reqs, cookie, captured, created>>

Tick ==
    /\ Delivered
    /\ phase = "listening"
    /\ now + TickStep <= MaxTicks * TickStep
    /\ now' = now + TickStep
    /\ UNCHANGED <<variant, env, phase, users, tasks, reqs, cookie, captured, created>>

\* ------------------------------------------------------------- tokens
\* !x of JavaScript, for the strings a JSON body field can hold
Falsy(x) == x = Undefined \/ x = ""

\* jwt.sign(payload, key, {expiresIn}): the signature binds the payload to the key
JwtSign(id, username, key, t) == [id |-> id, username |-> username, exp |-> t + ExpiresIn, sig |-> key]

\* jwt.sign throws when the key is absent
JwtSignThrows(key) == key = Undefined

\* generateToken(user): variant A reads user.user_id, variant B reads user.id,
\* a field the users rows do not have, so that the payload carries no id
generateToken(v, user, key, t) ==
    JwtSign(IF v = "A" THEN user.user_id ELSE 0, user.username, key, t)

\* a token with its signature altered
Tamper(t) == [t EXCEPT !.sig = "tampered"]

\* jwt.verify called with ignoreExpiration: the exp claim is not looked at
JwtVerifyIgnoreExpiration(words, t, key, t0) ==
    /\ words = 1
    /\ key # Undefined
    /\ t.sig = key

\* jwt.verify(string, key, cb): the string is `words` space-separated words, the
\* last of them the token; err unless it is one well-formed token, signed with
\* the key and not yet expired (clockTimestamp >= exp is expired)
JwtVerifyOk(words, t, key, t0) ==
    /\ words = 1
    /\ key # Undefined
    /\ t.sig = key
    /\ t0 < t.exp

\* the Authorization header a request carries: its number of words and its token
Header(how, t) ==
    IF how = "bearer" THEN [words |-> 2, tok |-> t]
    ELSE IF how = "raw" THEN [words |-> 1, tok |-> t]
    ELSE [words |-> 0, tok |-> NoToken]

\* the tokens a client can present: those it holds, intact or tampered with
Held == {cookie, captured} \ {NoToken}
Presentable == Held \cup {Tamper(t) : t \in Held}
Credentials(hows) == {<<"none", NoToken>>} \cup {<<h, t>> : h \in hows, t \in Presentable}


\* ------------------------------------------------------------- routes
\* app.get / app.post registrations of each variant
Registered(v) ==
    IF v = "A" THEN
        {"GET /", "POST /register", "POST /login", "POST /logout", "GET /protected",
         "GET /users", "GET /api/columns/:board_id", "GET /api/tasks/:column_id",
         "POST /api/tasks", "GET /api/boards", "POST /api/columns"}
    ELSE IF v = "B" THEN
        {"GET /", "GET /users", "GET /api/boards", "GET /api/columns/:board_id",
         "GET /api/tasks/:column_id", "POST /api/tasks", "POST /register", "POST /login",
         "GET /protected"}
    ELSE {"GET /api/data"}

\* the registrations that pass verifyToken before the handler
Gated(v, route) ==
    /\ v = "A"
    /\ route \in {"GET /protected", "GET /users", "GET /api/columns/:board_id",
                  "GET /api/tasks/:column_id", "POST /api/tasks", "POST /api/columns"}

\* the handlers that are one pool.query in a try/catch
StoreRoutes(v) ==
    Registered(v) \cap {"GET /users", "GET /api/columns/:board_id", "GET /api/tasks/:column_id",
                        "POST /api/tasks", "GET /api/boards", "POST /api/columns", "GET /api/data"}

\* a catch block that sends the error it caught
Error500Echo(v, route, err) == Err(err)

\* the body of the 500 each catch block sends; err is logged, not sent
Error500(v, route, err) ==
    IF route \in {"POST /register", "POST /login"} THEN Msg("Internal server error")
    ELSE IF route = "GET /users" THEN Text("Server error")
    ELSE IF route = "GET /api/data" THEN Text("Server Error")
    ELSE IF route = "GET /api/columns/:board_id" THEN Err("Failed to fetch columns")
    ELSE IF route = "GET /api/tasks/:column_id" THEN Err("Failed to fetch tasks")
    ELSE IF route = "POST /api/tasks" THEN Err("Failed to create task")
    ELSE IF route = "GET /api/boards" THEN Err("Failed to fetch boards")
    ELSE Err("Failed to create column")

\* a catch block that tells a taken username apart from the other faults
CatchConflict(v, r, err) ==
    IF err = UniqueViolationFault
    THEN Respond([r EXCEPT !.fault = err], 409, Msg("Username already exists"))
    ELSE Respond([r EXCEPT !.fault = err], 500, Error500(v, r.route, err))

\* catch (error) { console.error(...); res.status(500)... }
Catch(v, r, err) == Respond([r EXCEPT !.fault = err], 500, Error500(v, r.route, err))

\* a request as it arrives, before any of its handler has run
Arrived(route, how, t) ==
    [Idle EXCEPT !.route = route, !.pc = "new", !.how = how, !.tok = t, !.fresh = (now < t.exp)]

\* --------------------------------------------------- auth middleware
\* verifyToken(req, res, next): the token is the second word of the
\* Authorization header; next() runs the handler with req.user = decoded
verifyToken(r, key, t0) ==
    LET h == Header(r.how, r.tok)
        token == IF h.words >= 2 THEN h.tok ELSE NoToken
    IN  IF h.words < 2 THEN Respond(r, 401, Msg("Access denied. No token provided."))
        ELSE IF ~JwtVerifyOk(1, token, key, t0) THEN Respond(r, 403, Msg("Invalid or expired token."))
        ELSE [r EXCEPT !.user = [id |-> token.id, username |-> token.username], !.handler = TRUE]

\* GET /protected of variant B: the whole Authorization header is the token
ProtectedInline(r, key, t0) ==
    LET h == Header(r.how, r.tok)
        decoded == [id |-> h.tok.id, username |-> h.tok.username]
    IN  IF h.words = 0 THEN Respond(r, 403, Msg("Token is required"))
        ELSE IF ~JwtVerifyOk(h.words, h.tok, key, t0) THEN Respond(r, 403, Msg("Invalid or expired token"))
        ELSE Respond([r EXCEPT !.user = decoded, !.handler = TRUE], 200, GrantedBody(decoded))

\* app.get("/protected", verifyToken, (req, res) => res.json({message, user: req.user}))
ProtectedHandler(r) == Respond(r, 200, GrantedBody(r.user))

Protected ==
    \E i \in Slots, c \in Credentials({"bearer", "raw", "cookie"}) :
        /\ Delivered
        /\ phase = "listening"
        /\ "GET /protected" \in Registered(variant)
        /\ FreeSlot(i)
        /\ LET r0 == Arrived("GET /protected", c[1], c[2])
               r1 == IF variant = "A" THEN verifyToken(r0, SECRET_KEY, now)
                     ELSE ProtectedInline(r0, SECRET_KEY, now)
               r2 == IF r1.pc = "done" THEN r1 ELSE ProtectedHandler(r1)
           IN  reqs' = [reqs EXCEPT ![i] = r2]
        /\ UNCHANGED <<variant, env, phase, now, users, tasks, cookie, captured, created>>

\* app.get("/", ...)
Root ==
    \E i \in Slots :
        /\ Delivered
        /\ phase = "listening"
        /\ "GET /" \in Registered(variant)
        /\ FreeSlot(i)
        /\ reqs' = [reqs EXCEPT ![i] =
               Respond([Arrived("GET /", "none", NoToken) EXCEPT !.handler = TRUE], 200,
                       Text(IF variant = "A" THEN "API is running!"
                            ELSE "Welcome to the API! The server is running."))]
        /\ UNCHANGED <<variant, env, phase, now, users, tasks, cookie, captured, created>>

\* the response has been delivered and the slot is free again
Close ==
    \E i \in Slots :
        /\ reqs[i].pc = "done"
        /\ reqs' = [reqs EXCEPT ![i] = Idle]
        /\ UNCHANGED <<variant, env, phase, now, users, tasks, cookie, captured, created>>

\* ------------------------------------------------ store-backed routes
\* the user_id column of the row POST /api/tasks inserts: req.user.id in
\* variant A, the body's user_id in variant B
TaskCreator(v, r) == IF v = "A" THEN r.user.id ELSE r.user_id

BodyUserIds(route) == IF route = "POST /api/tasks" THEN 1..Cardinality(Usernames) ELSE {0}

StoreArrive ==
    \E i \in Slots, route \in StoreRoutes(variant), c \in Credentials({"bearer"}) :
      \E uid \in BodyUserIds(route) :
        /\ Delivered
        /\ phase = "listening"
        /\ FreeSlot(i)
        /\ Cardinality({j \in Slots : reqs[j].pc = "query" /\ reqs[j].route \in StoreRoutes(variant)}) < MaxStore
        /\ LET r0 == [Arrived(route, c[1], c[2]) EXCEPT !.user_id = uid]
               r1 == IF Gated(variant, route) THEN verifyToken(r0, SECRET_KEY, now)
                     ELSE [r0 EXCEPT !.handler = TRUE]
               r2 == IF r1.pc = "done" THEN r1 ELSE [r1 EXCEPT !.pc = "query", !.nq = @ + 1]
           IN  reqs' = [reqs EXCEPT ![i] = r2]
        /\ UNCHANGED <<variant, env, phase, now, users, tasks, cookie, captured, created>>

\* pool.query rejects: the catch block answers
StoreFaulted ==
    \E i \in Slots, f \in Faults :
        /\ Delivered
        /\ reqs[i].pc = "query"
        /\ reqs[i].route \in StoreRoutes(variant)
        /\ reqs' = [reqs EXCEPT ![i] = Catch(variant, reqs[i], f)]
        /\ UNCHANGED <<variant, env, phase, now, users, tasks, cookie, captured, created>>

\* pool.query resolves: res.json(result.rows) or res.json(result.rows[0])
StoreReturned ==
    \E i \in Slots :
        LET r == reqs[i] IN
        /\ Delivered
        /\ r.pc = "query"
        /\ r.route \in StoreRoutes(variant)
        /\ IF r.route = "POST /api/tasks" THEN
               /\ Len(tasks) < MaxRows
               /\ tasks' = Append(tasks, [task_id |-> Len(tasks) + 1, user_id |-> TaskCreator(variant, r)])
               /\ reqs' = [reqs EXCEPT ![i] = Respond(r, 200, RowBody("tasks", TaskCreator(variant, r)))]
           ELSE IF r.route = "POST /api/columns" THEN
               /\ reqs' = [reqs EXCEPT ![i] = Respond(r, 200, RowBody("columns", 0))]
               /\ UNCHANGED tasks
           ELSE
               /\ reqs' = [reqs EXCEPT ![i] = Respond(r, 200, RowsBody(r.route))]
               /\ UNCHANGED tasks
        /\ UNCHANGED <<variant, env, phase, now, users, cookie, captured, created>>


\* ---------------------------------------------------- register, login
\* a validation that looks at the username alone
ValidationUsernameOnly(username, password) == Falsy(username)

\* if (!username || !password) return res.status(400)...
ValidationFails(username, password) == Falsy(username) \/ Falsy(password)

ValidationMessage(v) ==
    IF v = "A" THEN "Username and password required." ELSE "Username and password are required"

\* bcrypt.hash(password, 10): a salted one-way hash
bcryptHash(password, salt) == [salt |-> salt, pw |-> password]

\* bcrypt.compare(password, hash): rehashes with the salt of the stored hash
bcryptCompare(password, hash) == bcryptHash(password, hash.salt) = hash

\* the UNIQUE constraint on users.username, held by the store
UniqueViolation(us, username) == \E k \in 1..Len(us) : us[k].username = username

\* SELECT * FROM users WHERE username = $1
SelectUser(us, username) == SelectSeq(us, LAMBDA row : row.username = username)

\* res.cookie("token", token, ...): variant A only
SetsCookie(v) == v = "A"

\* the {username, password} bodies sent: every pair of present fields, and
\* bodies with a field missing or empty
CredentialInputs(extra) ==
    (Usernames \X (Passwords \cup extra))
        \cup ({Undefined, ""} \X Passwords)
        \cup (Usernames \X {""})
        \cup {<<"alice", Undefined>>, <<Undefined, Undefined>>, <<"", "">>}

\* the response once the token is signed: cookie (variant A) and status
Issue(v, r, s, t) ==
    Respond([r EXCEPT !.setCookie = IF SetsCookie(v) THEN t ELSE NoToken], s, TokenBody(t))

\* what the client keeps of an answered register or login
ClientKeeps(r) ==
    /\ cookie' = IF r.setCookie # NoToken THEN r.setCookie ELSE cookie
    /\ captured' = IF r.body.kind = "token" THEN r.body.token ELSE captured

RegisterArrive ==
    \E i \in Slots, in \in CredentialInputs({}) :
        /\ Delivered
        /\ phase = "listening"
        /\ "POST /register" \in Registered(variant)
        /\ FreeSlot(i)
        /\ LET r0 == [Arrived("POST /register", "none", NoToken) EXCEPT
                         !.username = in[1], !.password = in[2], !.handler = TRUE]
           IN  reqs' = [reqs EXCEPT ![i] =
                   IF ValidationFails(in[1], in[2])
                   THEN Respond(r0, 400, Msg(ValidationMessage(variant)))
                   ELSE [r0 EXCEPT !.pc = "hash", !.nhash = @ + 1]]
        /\ UNCHANGED <<variant, env, phase, now, users, tasks, cookie, captured, created>>

\* await bcrypt.hash resolves and the INSERT is sent, or it rejects
RegisterHashed ==
    \E i \in Slots, f \in Faults \cup {""}, salt \in 1..MaxSalt :
        LET r == reqs[i] IN
        /\ Delivered
        /\ r.pc = "hash"
        /\ reqs' = [reqs EXCEPT ![i] =
               IF f # "" THEN Catch(variant, r, f)
               ELSE [r EXCEPT !.hashed = bcryptHash(r.password, salt), !.pc = "query", !.nq = @ + 1]]
        /\ UNCHANGED <<variant, env, phase, now, users, tasks, cookie, captured, created>>

\* the INSERT is rejected: a store fault, or the username is taken
RegisterRejected ==
    \E i \in Slots, f \in Faults \cup {UniqueViolationFault} :
        LET r == reqs[i] IN
        /\ Delivered
        /\ r.pc = "query"
        /\ r.route = "POST /register"
        /\ f = UniqueViolationFault => UniqueViolation(users, r.username)
        /\ reqs' = [reqs EXCEPT ![i] = Catch(variant, r, f)]
        /\ UNCHANGED <<variant, env, phase, now, users, tasks, cookie, captured, created>>

\* the INSERT returns the new row: generateToken, res.cookie, res.status(201)
RegisterInserted ==
    \E i \in Slots :
        LET r == reqs[i]
            row == [user_id |-> Len(users) + 1, username |-> r.username, password |-> r.hashed]
            r1 == IF JwtSignThrows(SECRET_KEY)
                  THEN Catch(variant, r, "secretOrPrivateKey must have a value")
                  ELSE Issue(variant, r, 201, generateToken(variant, row, SECRET_KEY, now))
        IN
        /\ Delivered
        /\ r.pc = "query"
        /\ r.route = "POST /register"
        /\ ~UniqueViolation(users, r.username)
        /\ users' = Append(users, row)
        /\ reqs' = [reqs EXCEPT ![i] = r1]
        /\ created' = IF r1.status = 201 THEN [created EXCEPT ![r.username] = @ + 1] ELSE created
        /\ ClientKeeps(r1)
        /\ UNCHANGED <<variant, env, phase, now, tasks>>

LoginArrive ==
    \E i \in Slots, in \in CredentialInputs({WrongPassword}) :
        /\ Delivered
        /\ phase = "listening"
        /\ "POST /login" \in Registered(variant)
        /\ FreeSlot(i)
        /\ LET r0 == [Arrived("POST /login", "none", NoToken) EXCEPT
                         !.username = in[1], !.password = in[2], !.handler = TRUE]
           IN  reqs' = [reqs EXCEPT ![i] =
                   IF ValidationFails(in[1], in[2])
                   THEN Respond(r0, 400, Msg(ValidationMessage(variant)))
                   ELSE [r0 EXCEPT !.pc = "query", !.nq = @ + 1]]
        /\ UNCHANGED <<variant, env, phase, now, users, tasks, cookie, captured, created>>

\* the SELECT returns: no row is a 400, a row goes to bcrypt.compare
LoginQueried ==
    \E i \in Slots, f \in Faults \cup {""} :
        LET r == reqs[i]
            rows == SelectUser(users, r.username)
        IN
        /\ Delivered
        /\ r.pc = "query"
        /\ r.route = "POST /login"
        /\ reqs' = [reqs EXCEPT ![i] =
               IF f # "" THEN Catch(variant, r, f)
               ELSE IF Len(rows) = 0 THEN Respond(r, 400, Msg("Invalid username or password"))
               ELSE [r EXCEPT !.row = rows[1], !.pc = "compare", !.ncmp = @ + 1]]
        /\ UNCHANGED <<variant, env, phase, now, users, tasks, cookie, captured, created>>

\* bcrypt.compare returns: generateToken, res.cookie, res.json({token})
LoginCompared ==
    \E i \in Slots, f \in Faults \cup {""} :
        LET r == reqs[i]
            r1 == IF f # "" THEN Catch(variant, r, f)
                  ELSE IF ~bcryptCompare(r.password, r.row.password)
                  THEN Respond(r, 400, Msg("Invalid username or password"))
                  ELSE IF JwtSignThrows(SECRET_KEY)
                  THEN Catch(variant, r, "secretOrPrivateKey must have a value")
                  ELSE Issue(variant, r, 200, generateToken(variant, r.row, SECRET_KEY, now))
        IN
        /\ Delivered
        /\ r.pc = "compare"
        /\ reqs' = [reqs EXCEPT ![i] = r1]
        /\ ClientKeeps(r1)
        /\ UNCHANGED <<variant, env, phase, now, users, tasks, created>>

\* app.post("/logout"): res.clearCookie("token"), nothing else
Logout ==
    \E i \in Slots :
        /\ Delivered
        /\ phase = "listening"
        /\ "POST /logout" \in Registered(variant)
        /\ FreeSlot(i)
        /\ reqs' = [reqs EXCEPT ![i] =
               Respond([Arrived("POST /logout", "none", NoToken) EXCEPT !.handler = TRUE], 200,
                       Msg("Logged out successfully"))]
        /\ cookie' = NoToken
        /\ UNCHANGED <<variant, env, phase, now, users, tasks, captured, created>>

\* ------------------------------------------------------ specification
\* the environments the requests are served under: complete, or without the secret
EnvConfigs == {EnvVars, EnvVars \ {"SECRET_KEY"}}

Init ==
    /\ variant \in Variants
    /\ env \in EnvConfigs
    /\ variant = "S" => env = EnvVars
    /\ phase = "boot"
    /\ now = 0
    /\ users = <<>>
    /\ tasks = <<>>
    /\ reqs = [i \in Slots |-> Idle]
    /\ cookie = NoToken
    /\ captured = NoToken
    /\ created = [u \in Usernames |-> 0]

Next ==
    \/ Close
    \/ Startup
    \/ Tick
    \/ Root
    \/ RegisterArrive
    \/ RegisterHashed
    \/ RegisterRejected
    \/ RegisterInserted
    \/ LoginArrive
    \/ LoginQueried
    \/ LoginCompared
    \/ Logout
    \/ Protected
    \/ StoreArrive
    \/ StoreFaulted
    \/ StoreReturned

Spec == Init /\ [][Next]_vars


\* only the startup code and the routes that need no user, under every environment
InitStartup ==
    /\ variant \in Variants
    /\ env \in SUBSET EnvVars
    /\ variant = "S" => env = EnvVars
    /\ phase = "boot"
    /\ now = 0
    /\ users = <<>>
    /\ tasks = <<>>
    /\ reqs = [i \in Slots |-> Idle]
    /\ cookie = NoToken
    /\ captured = NoToken
    /\ created = [u \in Usernames |-> 0]

NextStartup ==
    \/ Close
    \/ Startup
    \/ Tick
    \/ Root
    \/ Protected

SpecStartup == InitStartup /\ [][NextStartup]_vars

\* register and login alone: the steps that read or write the users table
NextAccounts ==
    \/ Close
    \/ Startup
    \/ RegisterArrive
    \/ RegisterHashed
    \/ RegisterRejected
    \/ RegisterInserted
    \/ LoginArrive
    \/ LoginQueried
    \/ LoginCompared

SpecAccounts == Init /\ [][NextAccounts]_vars

\* fewer than MaxOpen requests are open: another one may arrive
Room == Cardinality({i \in Slots : reqs[i].pc # "idle"}) < MaxOpen

\* the life of a token: issued by register or login, presented to the gate of
\* GET /protected, logged out, expired
NextSession ==
    \/ Close
    \/ Startup
    \/ Tick
    \/ Room /\ RegisterArrive
    \/ RegisterHashed
    \/ RegisterRejected
    \/ RegisterInserted
    \/ Room /\ LoginArrive
    \/ LoginQueried
    \/ LoginCompared
    \/ Room /\ Logout
    \/ Room /\ Protected

SpecSession == Init /\ [][NextSession]_vars

\* every handler that awaits the store, bcrypt.hash or bcrypt.compare
NextStore ==
    \/ Close
    \/ Startup
    \/ Room /\ RegisterArrive
    \/ RegisterHashed
    \/ RegisterRejected
    \/ RegisterInserted
    \/ Room /\ LoginArrive
    \/ LoginQueried
    \/ LoginCompared
    \/ Room /\ StoreArrive
    \/ StoreFaulted
    \/ StoreReturned

SpecStore == Init /\ [][NextStore]_vars

\* ============================================================== claims
\* the routes the route table of the specification marks as auth-required
AuthRequired ==
    {"GET /protected", "GET /users", "GET /api/columns/:board_id", "GET /api/tasks/:column_id",
     "POST /api/columns", "POST /api/tasks"}

\* the routes whose registration verifies a token before the handler runs
Verifying(v, route) == Gated(v, route) \/ (v = "B" /\ route = "GET /protected")

\* the token a request carries is one the server signed
Signed(r) == SECRET_KEY # Undefined /\ r.tok.sig = SECRET_KEY

\* the request carries a signed token that had not expired when it arrived
CarriesValid(r) == r.how # "none" /\ Signed(r) /\ r.fresh

\* the request carries its token where the variant's code reads it
PresentedAsRead(v, r) == IF v = "A" THEN r.how = "bearer" ELSE r.how = "raw"

Identity(t) == [id |-> t.id, username |-> t.username]

\* C1: on every route the route table marks auth-required, a request
\* with no token, an expired token or a tampered token is answered 401 or 403,
\* its handler is not invoked and no store query is issued for it.
C1_UnauthenticatedRejected ==
    \A i \in Slots :
        LET r == reqs[i] IN
        (r.pc # "idle" /\ r.route \in AuthRequired /\ ~CarriesValid(r))
            => /\ r.nq = 0
               /\ ~r.handler
               /\ r.pc = "done"
               /\ r.status \in {401, 403}

\* C2: a valid, unexpired token is accepted as 'Bearer <token>', as the raw
\* token in the Authorization header, and as the cookie named token: in each
\* of the three cases the request reaches the handler.
C2_ThreePresentations ==
    \A i \in Slots :
        LET r == reqs[i] IN
        (r.pc # "idle" /\ Verifying(variant, r.route) /\ CarriesValid(r)
            /\ r.how \in {"bearer", "raw", "cookie"})
            => r.handler

\* the user_id of the users row of a username
UserIdOf(username) ==
    LET rows == SelectUser(users, username) IN IF Len(rows) = 0 THEN 0 ELSE rows[1].user_id

\* C3: a task created through POST /api/tasks by a request authenticated as
\* user U has U's identifier as its user_id, whatever user_id the body holds.
C3_CreatorIsAuthenticatedUser ==
    \A i \in Slots :
        LET r == reqs[i] IN
        (r.route = "POST /api/tasks" /\ r.pc = "done" /\ r.status = 200 /\ CarriesValid(r))
            => /\ r.body.user_id = UserIdOf(r.tok.username)
               /\ tasks[Len(tasks)].user_id = UserIdOf(r.tok.username)

\* C4: register answers 201 and login with the same credentials answers 200,
\* and the token of each decodes to the user_id and username of the row the
\* registration created.
C4_RegisterLoginSameIdentity ==
    \A i \in Slots :
        LET r == reqs[i]
            rows == SelectUser(users, r.username)
        IN
        /\ (r.pc = "done" /\ ((r.route = "POST /register" /\ r.status = 201)
                              \/ (r.route = "POST /login" /\ r.status = 200)))
            => /\ Len(rows) = 1
               /\ r.body.kind = "token"
               /\ JwtVerifyOk(1, r.body.token, SECRET_KEY, now)
               /\ r.body.token.id = rows[1].user_id
               /\ r.body.token.username = rows[1].username
        /\ (r.pc = "done" /\ r.route = "POST /register" /\ r.nq = 1 /\ r.fault = "")
            => r.status = 201
        /\ (r.pc = "done" /\ r.route = "POST /login" /\ r.ncmp = 1 /\ r.fault = ""
                /\ bcryptCompare(r.password, r.row.password))
            => r.status = 200

\* C5: a token issued by register or login for a user, presented before its
\* expiry, makes the handler run with req.user carrying exactly that user's id
\* and username, attached before the handler is invoked; GET /protected
\* echoes it in a 200.
C5_VerifyReturnsIssuedIdentity ==
    \A i \in Slots :
        LET r == reqs[i]
            issuedFor == [id |-> UserIdOf(r.tok.username), username |-> r.tok.username]
        IN
        (r.pc # "idle" /\ Verifying(variant, r.route) /\ PresentedAsRead(variant, r)
            /\ CarriesValid(r))
            => /\ r.handler
               /\ r.user = issuedFor
               /\ r.route = "GET /protected"
                    => (r.pc = "done" /\ r.status = 200 /\ r.body.user = issuedFor)

C7_ValidationBeforeStore ==
    \A i \in Slots :
        LET r == reqs[i] IN
        (r.pc # "idle" /\ r.route \in {"POST /register", "POST /login"}
            /\ (r.username \in {Undefined, ""} \/ r.password \in {Undefined, ""}))
            => /\ r.pc = "done"
               /\ r.status = 400
               /\ r.nq = 0 /\ r.nhash = 0 /\ r.ncmp = 0
               /\ r.body.kind = "message"
               /\ r.body.token = NoToken
               /\ r.setCookie = NoToken

C7_Witness ==
    \E i \in Slots :
        /\ reqs[i].route = "POST /register"
        /\ reqs[i].username \in Usernames
        /\ reqs[i].password = ""
        /\ reqs[i].status = 400

\* C8: of the register requests that carry one username at most one is
\* answered 201; one whose insert is rejected is answered with the generic
\* 500, no token and no cookie; the store never holds a username twice.
C8_OneRegistrationPerUsername ==
    /\ \A u \in Usernames : created[u] <= 1
    /\ \A k1, k2 \in 1..Len(users) : users[k1].username = users[k2].username => k1 = k2
    /\ \A i \in Slots :
        LET r == reqs[i] IN
        (r.route = "POST /register" /\ r.pc = "done" /\ r.nhash = 1)
            => /\ r.status \in {201, 500}
               /\ r.status = 201 => (created[r.username] = 1 /\ r.fault = "")
               /\ r.status = 500
                    => /\ r.body = Msg("Internal server error")
                       /\ r.setCookie = NoToken

\* a register request lost to an earlier one with its username
C8_Witness ==
    \E i \in Slots :
        /\ reqs[i].route = "POST /register"
        /\ reqs[i].fault = UniqueViolationFault
        /\ reqs[i].status = 500
        /\ created[reqs[i].username] = 1

\* the fixed body of each route's 500
GenericBodies ==
    {<<"POST /register", Msg("Internal server error")>>,
     <<"POST /login", Msg("Internal server error")>>,
     <<"GET /users", Text("Server error")>>,
     <<"GET /api/data", Text("Server Error")>>,
     <<"GET /api/columns/:board_id", Err("Failed to fetch columns")>>,
     <<"GET /api/tasks/:column_id", Err("Failed to fetch tasks")>>,
     <<"POST /api/tasks", Err("Failed to create task")>>,
     <<"GET /api/boards", Err("Failed to fetch boards")>>,
     <<"POST /api/columns", Err("Failed to create column")>>}

\* C9: a store, hash or compare fault ends the request: each is started at
\* most once, exactly one response is sent, a 500 whose body is fixed by the
\* route alone; a request still waiting for the store has no response.
C9_FaultIsTerminal ==
    \A i \in Slots :
        LET r == reqs[i] IN
        /\ r.nq <= 1 /\ r.nhash <= 1 /\ r.ncmp <= 1 /\ r.nresp <= 1
        /\ r.fault # "" => (r.pc = "done" /\ r.status = 500 /\ r.nresp = 1
                            /\ <<r.route, r.body>> \in GenericBodies)
        /\ r.pc \in {"hash", "query", "compare"} => (r.nresp = 0 /\ r.status = 0)
        /\ r.pc = "done" => r.nresp = 1

C9_Witness ==
    \E i \in Slots :
        /\ reqs[i].route = "GET /api/tasks/:column_id"
        /\ reqs[i].fault = "ETIMEDOUT"
        /\ reqs[i].status = 500

\* C10: the server listens only when the signing secret and every store
\* credential are present.
C10_FailFast ==
    phase = "listening" => (StoreCredentials \cup {"SECRET_KEY"}) \subseteq env

====
